---- MODULE Spec2Model ----
(***************************************************************************)
(* A model of the k-way stream merger of this repository.                  *)
(*                                                                         *)
(* The repository holds two StreamMerger classes of the same shape:        *)
(*   src/unnamed/part_000  the merger with limit validation, timestamp     *)
(*                         validation and the stall counter ("safe");      *)
(*   src/random.ts         the merger without those safeguards ("random"). *)
(* The variable impl says which of the two a behaviour runs: Spec is the    *)
(* merger of part_000, SpecRandom the merger of random.ts.  A behaviour     *)
(* constructs one merger over a list of streams and calls takeN once; the  *)
(* peeks of a round complete one by one, in any order.  SpecTies is the    *)
(* merger of part_000 over up to MaxTieStreams streams; SpecPending is the *)
(* merger of part_000 over streams with pending stacks items; SpecConc     *)
(* adds peek and next() calls that fail; SpecTwice calls takeN a second    *)
(* time on the same merger; SpecLive and SpecRandomLive add that every     *)
(* awaited call completes.                                                 *)
(*                                                                         *)
(* JavaScript numbers are records [k, n, d]: k = "fin" is the rational     *)
(* n/d, k = "inf" is +Infinity, k = "nan" is NaN and k = "undef" is the    *)
(* value undefined (or null) of an optional field.                         *)
(***************************************************************************)
EXTENDS Integers, Sequences, FiniteSets, TLC

(***************************************************************************)
(* Bounds of the model.                                                    *)
(***************************************************************************)
MaxStreams == 2
MaxItems == 3
MaxLimit == 3
MaxTieStreams == 3

(***************************************************************************)
(* JavaScript numbers and their comparisons.                               *)
(***************************************************************************)
Num(n, d) == [k |-> "fin", n |-> n, d |-> d]
Fin(n) == Num(n, 1)
PosInf == [k |-> "inf", n |-> 0, d |-> 1]
NaN == [k |-> "nan", n |-> 0, d |-> 1]
Undefined == [k |-> "undef", n |-> 0, d |-> 1]
Throw == [k |-> "throw", n |-> 0, d |-> 1]

\* typeof x === "number"
IsNumber(x) == x.k \in {"fin", "inf", "nan"}

\* Number.isFinite(x)
IsFinite(x) == x.k = "fin"

\* isNaN(x), for x a number
IsNaN(x) == x.k = "nan"

\* a < b on numbers: false whenever either side is NaN
JsLT(a, b) ==
  CASE a.k = "fin" /\ b.k = "fin" -> a.n * b.d < b.n * a.d
    [] a.k = "fin" /\ b.k = "inf" -> TRUE
    [] OTHER -> FALSE

\* a > b
JsGT(a, b) == JsLT(b, a)

\* a === b on numbers: NaN equals nothing, itself included
JsEQ(a, b) ==
  CASE a.k = "fin" /\ b.k = "fin" -> a.n * b.d = b.n * a.d
    [] a.k = "inf" /\ b.k = "inf" -> TRUE
    [] OTHER -> FALSE

\* a <= b
JsLE(a, b) == JsLT(a, b) \/ JsEQ(a, b)

\* Math.floor(x / 1000), for x an integral number of milliseconds or NaN
FloorDiv1000(x) == IF x.k = "fin" THEN Fin(x.n \div 1000) ELSE x

\* x ?? 0
OrZero(x) == IF x.k = "undef" THEN Fin(0) ELSE x

(***************************************************************************)
(* Date values.  A timestamp field (an ISO string, or a number of         *)
(* milliseconds) is modelled by what new Date(v).getTime() makes of it:    *)
(* [k |-> "fin"] the milliseconds since the epoch, [k |-> "nan"] when the  *)
(* value does not parse.                                                   *)
(***************************************************************************)
DateGetTime(v) == IF v.k = "fin" THEN v ELSE NaN

(***************************************************************************)
(* Transactions: the tagged union over the four source kinds, with the     *)
(* fields the normalizer reads.                                            *)
(***************************************************************************)
Bitcoin(blockTime) == [type |-> "bitcoin", blockTime |-> blockTime]
Stacks(block_time, burn_block_time) ==
  [type |-> "stacks", block_time |-> block_time, burn_block_time |-> burn_block_time]
Starknet(blockTimestamp) == [type |-> "starknet", blockTimestamp |-> blockTimestamp]
Spark(createdAt) == [type |-> "spark", createdAt |-> createdAt]

\* The result of peek() on an exhausted stream, and of a next() without a value.
NoTx == [type |-> "undefined"]

\* A normalizer that gives a stacks item without any block time the oldest
\* timestamp instead of the newest.
getTransactionTimestampPendingOldest(tx) ==
  CASE tx.type = "bitcoin" -> OrZero(tx.blockTime)
    [] tx.type = "stacks" ->
         IF IsNumber(tx.block_time) /\ JsGT(tx.block_time, Fin(0))
         THEN tx.block_time
         ELSE IF IsNumber(tx.burn_block_time)
              THEN tx.burn_block_time
              ELSE Fin(0)
    [] tx.type = "starknet" ->
         LET timestamp == DateGetTime(tx.blockTimestamp)
         IN IF IsNaN(timestamp) THEN Throw ELSE FloorDiv1000(timestamp)
    [] tx.type = "spark" ->
         LET createdAt == OrZero(tx.createdAt)
             timestamp == DateGetTime(createdAt)
         IN IF IsNaN(timestamp) THEN Throw ELSE FloorDiv1000(timestamp)
    [] OTHER -> Throw

(***************************************************************************)
(* getTransactionTimestamp of src/unnamed/part_000: the MergeKey of a      *)
(* transaction, or Throw where the function throws.                        *)
(***************************************************************************)
getTransactionTimestamp(tx) ==
  CASE tx.type = "bitcoin" -> OrZero(tx.blockTime)
    [] tx.type = "stacks" ->
         IF IsNumber(tx.block_time) /\ JsGT(tx.block_time, Fin(0))
         THEN tx.block_time
         ELSE IF IsNumber(tx.burn_block_time)
              THEN tx.burn_block_time
              ELSE PosInf
    [] tx.type = "starknet" ->
         LET timestamp == DateGetTime(tx.blockTimestamp)
         IN IF IsNaN(timestamp) THEN Throw ELSE FloorDiv1000(timestamp)
    [] tx.type = "spark" ->
         LET createdAt == OrZero(tx.createdAt)
             timestamp == DateGetTime(createdAt)
         IN IF IsNaN(timestamp) THEN Throw ELSE FloorDiv1000(timestamp)
    [] OTHER -> Throw

\* A normalizer that leaves the createdAt of a spark item in milliseconds.
getTransactionTimestampRandomMillis(tx) ==
  CASE tx.type = "bitcoin" -> OrZero(tx.blockTime)
    [] tx.type = "stacks" ->
         IF IsNumber(tx.block_time) /\ JsGT(tx.block_time, Fin(0))
         THEN tx.block_time
         ELSE IF IsNumber(tx.burn_block_time)
              THEN tx.burn_block_time
              ELSE PosInf
    [] tx.type = "starknet" -> FloorDiv1000(DateGetTime(tx.blockTimestamp))
    [] tx.type = "spark" -> DateGetTime(OrZero(tx.createdAt))
    [] OTHER -> Undefined

(***************************************************************************)
(* getTransactionTimestamp of src/random.ts: no check of the parsed date,  *)
(* so an unparseable timestamp yields NaN.                                 *)
(***************************************************************************)
getTransactionTimestampRandom(tx) ==
  CASE tx.type = "bitcoin" -> OrZero(tx.blockTime)
    [] tx.type = "stacks" ->
         IF IsNumber(tx.block_time) /\ JsGT(tx.block_time, Fin(0))
         THEN tx.block_time
         ELSE IF IsNumber(tx.burn_block_time)
              THEN tx.burn_block_time
              ELSE PosInf
    [] tx.type = "starknet" -> FloorDiv1000(DateGetTime(tx.blockTimestamp))
    [] tx.type = "spark" -> FloorDiv1000(DateGetTime(OrZero(tx.createdAt)))
    [] OTHER -> Undefined

\* The normalizer of the implementation a behaviour runs.
Timestamp(im, tx) ==
  IF im = "safe" THEN getTransactionTimestamp(tx) ELSE getTransactionTimestampRandom(tx)

(***************************************************************************)
(* Program constants.                                                      *)
(***************************************************************************)
MAX_ALLOWED_LIMIT == 10000
MAX_EMPTY_PEEKS == 3

(***************************************************************************)
(* The inputs of the model.                                                *)
(***************************************************************************)
\* A timestamp string that does not parse as a date.
Unparseable == [k |-> "str", n |-> 0, d |-> 1]

\* The transactions streams carry: MergeKeys 100, 90 and 50, one malformed
\* starknet item.
TxUniverse ==
  { Bitcoin(Fin(100)), Starknet(Fin(90500)), Spark(Fin(50000)), Starknet(Unparseable) }

\* The transactions of the streams with ties among three streams and more:
\* MergeKeys 100 and 50.
TxTies == { Bitcoin(Fin(100)), Spark(Fin(50000)) }

\* The transactions of the streams with pending stacks items: MergeKey 100, a
\* stacks item with a burn_block_time only (MergeKey 50) and a pending stacks
\* item (no block time at all).
TxPending ==
  { Bitcoin(Fin(100)), Stacks(Undefined, Fin(50)), Stacks(Undefined, Undefined) }

\* The limits takeN is called with.
Limits ==
  { Fin(n) : n \in -1 .. MaxLimit }
    \cup { Num(5, 2), Fin(MAX_ALLOWED_LIMIT), Fin(MAX_ALLOWED_LIMIT + 1), NaN, PosInf }

\* All sequences over S of length exactly n.
SeqsOfLen(S, n) == [1 .. n -> S]

\* All lists of exactly n streams holding at most budget items in total.
RECURSIVE StreamListsOver(_, _, _)
StreamListsOver(S, n, budget) ==
  IF n = 0 THEN { <<>> }
  ELSE UNION { UNION { { <<s>> \o rest : rest \in StreamListsOver(S, n - 1, budget - len) }
                       : s \in SeqsOfLen(S, len) }
               : len \in 0 .. budget }

(***************************************************************************)
(* The state.                                                              *)
(***************************************************************************)
VARIABLES
  impl,             \* "safe": src/unnamed/part_000, "random": src/random.ts
  given,            \* whether the constructor was handed a list ("list") or none ("absent")
  streams,          \* this.streams: per stream, the items it has yet to emit
  pc,               \* "new", "idle", "peeking", "next", "returned", "failed"
  error,            \* the error a failed constructor or takeN threw
  limit,            \* takeN's argument
  results,          \* takeN's result accumulator
  emptyPeeksCount,  \* takeN's empty-round counter
  peeks,            \* this round's peek per stream: Idle, Pending, NoTx or a transaction
  winner,           \* the streamIndex next() was called on, -1 outside the consume step
  from,             \* history: the streamIndex that produced each item of results
  touched,          \* history: takeN has called peek or next on a stream
  emptyRun,         \* history: consecutive rounds without an append, up to MAX_EMPTY_PEEKS
  wasReset,         \* history: an append followed a round without an append
  sortedInput,      \* history: every stream was handed over in non-increasing MergeKey order
  totalItems,       \* history: the number of items the streams held when handed over
  rejected,         \* history: the peek and next calls of this takeN that failed
  calls,            \* history: the number of takeN calls made on the merger
  first,            \* history: the first of two takeN calls, once it has returned
  initial           \* history: the streams as handed over, kept where calls are compared

vars ==
  << impl, given, streams, pc, error, limit, results, emptyPeeksCount, peeks, winner,
     from, touched, emptyRun, wasReset, sortedInput, totalItems, rejected, calls,
     first, initial >>

\* The MergeKey of an item, as the specification defines it for every source kind.
MergeKey(tx) == getTransactionTimestamp(tx)

\* a >= b on MergeKeys
KeyGE(a, b) == JsGT(a, b) \/ JsEQ(a, b)

\* Stream s emits items that all have a MergeKey, in non-increasing MergeKey order.
NonIncreasing(s) ==
  /\ \A i \in 1 .. Len(s) : IsNumber(MergeKey(s[i]))
  /\ \A i \in 1 .. Len(s) - 1 : KeyGE(MergeKey(s[i]), MergeKey(s[i + 1]))

RECURSIVE SumLen(_, _)
SumLen(ss, i) == IF i > Len(ss) THEN 0 ELSE Len(ss[i]) + SumLen(ss, i + 1)

Idle == [type |-> "idle"]
Pending == [type |-> "pending"]

NumStreams == Len(streams)

\* Stream i of the model is the stream of streamIndex i - 1.
StreamIdx == 1 .. NumStreams

\* The record of a first call: its limit, what it returned, and whether every
\* next() of it yielded the item its stream's peek had reported.
CallRecord(l, res, clean) == [limit |-> l, results |-> res, clean |-> clean]

NoCall == CallRecord(Undefined, << >>, TRUE)

\* The states before construction: the lists of up to maxStreams streams over
\* the items of S, or no list at all.  keep tells whether the streams are
\* recorded in initial.
InputsWithin(im, S, keep, maxStreams) ==
  /\ impl = im
  /\ \E n \in 0 .. maxStreams :
       \/ /\ given = "list"
          /\ streams \in StreamListsOver(S, n, MaxItems)
       \/ /\ n = 0
          /\ given = "absent"
          /\ streams = <<>>
  /\ pc = "new"
  /\ error = "none"
  /\ limit = Undefined
  /\ results = <<>>
  /\ emptyPeeksCount = 0
  /\ peeks = [i \in StreamIdx |-> Idle]
  /\ winner = -1
  /\ from = <<>>
  /\ touched = FALSE
  /\ emptyRun = 0
  /\ wasReset = FALSE
  /\ sortedInput = (\A i \in StreamIdx : NonIncreasing(streams[i]))
  /\ totalItems = SumLen(streams, 1)
  /\ rejected = {}
  /\ calls = 0
  /\ first = NoCall
  /\ initial = IF keep THEN streams ELSE << >>

InputsOver(im, S, keep) == InputsWithin(im, S, keep, MaxStreams)

Inputs(im) == InputsOver(im, TxUniverse, FALSE)

\* The merger of src/unnamed/part_000 over every input.
Init == Inputs("safe")

\* The merger of src/random.ts over every input.
InitRandom == Inputs("random")

(***************************************************************************)
(* The constructor: part_000 refuses an absent or empty list, random.ts    *)
(* takes whatever it is given.                                             *)
(***************************************************************************)
ConstructorThrows(im, gv, ss) == im = "safe" /\ (gv = "absent" \/ Len(ss) = 0)

\* new StreamMerger(streams), by the constructor of implementation im
ConstructAs(im) ==
  /\ pc = "new"
  /\ IF ConstructorThrows(im, given, streams)
     THEN pc' = "failed" /\ error' = "config"
     ELSE pc' = "idle" /\ error' = "none"
  /\ UNCHANGED << impl, given, streams, limit, results, emptyPeeksCount, peeks, winner,
                  from, touched, emptyRun, wasReset, sortedInput, totalItems, rejected,
                  calls, first, initial >>

Construct == ConstructAs(impl)

(***************************************************************************)
(* The streams.  peek() reports the next item without consuming it; next() *)
(* either yields that item and advances ("value"), or yields nothing and   *)
(* stays where it is ("empty": not done, no value), or reports completion  *)
(* and is exhausted from then on ("done").                                 *)
(***************************************************************************)
StreamPeek(s) == IF Len(s) = 0 THEN NoTx ELSE Head(s)

NextOutcomes == { "value", "empty", "done" }

\* result.done and result.value of a next() with outcome o on stream s
StreamNextResult(s, o) ==
  CASE o = "value" /\ Len(s) > 0 -> [done |-> FALSE, value |-> Head(s)]
    [] o = "empty" -> [done |-> FALSE, value |-> NoTx]
    [] OTHER -> [done |-> TRUE, value |-> NoTx]

\* the stream after that next()
StreamAfterNext(s, o) ==
  CASE o = "value" /\ Len(s) > 0 -> Tail(s)
    [] o = "empty" -> s
    [] OTHER -> << >>

(***************************************************************************)
(* takeN: validation of the limit (part_000 only).                         *)
(***************************************************************************)
\* limit <= 0 || !Number.isFinite(limit), then limit > MAX_ALLOWED_LIMIT
LimitInvalid(l) ==
  \/ JsLE(l, Fin(0))
  \/ ~IsFinite(l)
  \/ JsGT(l, Fin(MAX_ALLOWED_LIMIT))

LimitThrows(im, l) == im = "safe" /\ LimitInvalid(l)

\* A loop test that lets one round too many through.
LoopTestOffByOne(res, l) == JsLE(Fin(Len(res)), l)

\* A loop test that stops one item short of the limit.
LoopTestOneShort(res, l) == JsLT(Fin(Len(res) + 1), l)

\* results.length < limit
LoopTest(res, l) == JsLT(Fin(Len(res)), l)

(***************************************************************************)
(* takeN: the winner of a round.  available is the list of peeks that      *)
(* returned an item, in stream order; reduce folds it from its first       *)
(* element, so a single candidate wins without its timestamp being read.   *)
(***************************************************************************)
Candidate(tx, idx) == [transaction |-> tx, streamIndex |-> idx]

ThrowCandidate == Candidate(NoTx, -1)

\* peeks.filter((p) => p.transaction !== undefined)
RECURSIVE Filter(_, _)
Filter(pk, i) ==
  IF i > Len(pk) THEN << >>
  ELSE IF pk[i] # NoTx
       THEN << Candidate(pk[i], i - 1) >> \o Filter(pk, i + 1)
       ELSE Filter(pk, i + 1)

available(pk) == Filter(pk, 1)

\* A reduce callback that keeps the older of two candidates.
BetterKeepsOlder(im, best, curr) ==
  LET bestTimestamp == Timestamp(im, best.transaction)
      currTimestamp == Timestamp(im, curr.transaction)
  IN IF bestTimestamp = Throw \/ currTimestamp = Throw THEN ThrowCandidate
     ELSE IF JsLT(currTimestamp, bestTimestamp) THEN curr
     ELSE IF JsEQ(currTimestamp, bestTimestamp)
          THEN (IF curr.streamIndex < best.streamIndex THEN curr ELSE best)
          ELSE best

\* A reduce callback whose tie-break favours the later stream.
BetterTieToLater(im, best, curr) ==
  LET bestTimestamp == Timestamp(im, best.transaction)
      currTimestamp == Timestamp(im, curr.transaction)
  IN IF bestTimestamp = Throw \/ currTimestamp = Throw THEN ThrowCandidate
     ELSE IF JsGT(currTimestamp, bestTimestamp) THEN curr
     ELSE IF JsEQ(currTimestamp, bestTimestamp)
          THEN (IF curr.streamIndex > best.streamIndex THEN curr ELSE best)
          ELSE best

\* the reduce callback
Better(im, best, curr) ==
  LET bestTimestamp == Timestamp(im, best.transaction)
      currTimestamp == Timestamp(im, curr.transaction)
  IN IF bestTimestamp = Throw \/ currTimestamp = Throw THEN ThrowCandidate
     ELSE IF JsGT(currTimestamp, bestTimestamp) THEN curr
     ELSE IF JsEQ(currTimestamp, bestTimestamp)
          THEN (IF curr.streamIndex < best.streamIndex THEN curr ELSE best)
          ELSE best

RECURSIVE Reduce(_, _, _)
Reduce(im, best, rest) ==
  IF best = ThrowCandidate \/ Len(rest) = 0 THEN best
  ELSE Reduce(im, Better(im, best, Head(rest)), Tail(rest))

\* available.reduce(...), for a non-empty list
Winner(im, av) == Reduce(im, Head(av), Tail(av))

\* What the round does once the peeks are in: "break" when no stream has an
\* item, "throw" when a timestamp read by reduce is malformed, else "next" on
\* the winner's stream.
Round(kind, idx) == [kind |-> kind, streamIndex |-> idx]

\* A round that takes the absence of any candidate for an error.
RoundOutcomeThrowsOnEmpty(im, pk) ==
  LET av == available(pk)
  IN IF Len(av) = 0 THEN Round("throw", -1)
     ELSE LET w == Winner(im, av)
          IN IF w = ThrowCandidate THEN Round("throw", -1)
             ELSE Round("next", w.streamIndex)

RoundOutcome(im, pk) ==
  LET av == available(pk)
  IN IF Len(av) = 0 THEN Round("break", -1)
     ELSE LET w == Winner(im, av)
          IN IF w = ThrowCandidate THEN Round("throw", -1)
             ELSE Round("next", w.streamIndex)

(***************************************************************************)
(* takeN: the head of the while loop, reached from the call and from the   *)
(* end of every round.  When the test holds, the peeks of all streams are  *)
(* issued at once; random.ts over an absent list fails on this.streams.map.*)
(***************************************************************************)
LoopHead(res) ==
  IF LoopTest(res, limit')
  THEN IF given = "absent"
       THEN /\ pc' = "failed"
            /\ error' = "type"
            /\ peeks' = peeks
            /\ touched' = touched
       ELSE /\ pc' = "peeking"
            /\ error' = "none"
            /\ peeks' = [i \in StreamIdx |-> Pending]
            /\ touched' = (touched \/ NumStreams > 0)
  ELSE /\ pc' = "returned"
       /\ error' = "none"
       /\ peeks' = [i \in StreamIdx |-> Idle]
       /\ touched' = touched

\* A results array that outlives the call: the call starts from what the
\* previous call left in it.
FreshResultsKept(res) == res

\* const results = []: every call starts from an empty array of its own.
FreshResults(res) == << >>

\* The body of takeN(l) of implementation im, up to its first await.
CallAs(im, l) ==
  /\ limit' = l
  /\ results' = FreshResults(results)
  /\ from' = << >>
  /\ emptyPeeksCount' = 0
  /\ emptyRun' = 0
  /\ wasReset' = FALSE
  /\ winner' = -1
  /\ rejected' = {}
  /\ calls' = calls + 1
  /\ IF LimitThrows(im, l)
     THEN /\ pc' = "failed"
          /\ error' = "limit"
          /\ UNCHANGED << peeks, touched >>
     ELSE LoopHead(FreshResults(results))
  /\ UNCHANGED << impl, given, streams, sortedInput, totalItems, initial >>

\* The call of takeN(l) on a merger that has not been called yet.
TakeNAs(im, l) ==
  /\ pc = "idle"
  /\ first' = first
  /\ CallAs(im, l)

TakeN(l) == TakeNAs(impl, l)

\* A second call of takeN(l), made on the same merger once the first call has
\* returned.
TakeNAgain(l) ==
  /\ pc = "returned"
  /\ calls = 1
  /\ first' = CallRecord(limit, results, emptyRun = 0 /\ ~wasReset)
  /\ CallAs(impl, l)

\* The peeks of a round are calls of their own, issued together at the head of
\* the round: the peek of stream i completes, in a turn of its own and in any
\* order with the others, with what the stream reports.  A peek that is still
\* pending when takeN has failed completes all the same.
PeekResolve(i) ==
  /\ i \in StreamIdx
  /\ pc \in { "peeking", "failed" }
  /\ peeks[i] = Pending
  /\ peeks' = [peeks EXCEPT ![i] = StreamPeek(streams[i])]
  /\ UNCHANGED << impl, given, streams, pc, error, limit, results, emptyPeeksCount,
                  winner, from, touched, emptyRun, wasReset, sortedInput, totalItems,
                  rejected, calls, first, initial >>

\* A barrier that opens as soon as one peek is in.
BarrierOpenOnFirst(pk) == \E i \in DOMAIN pk : pk[i] # Pending

\* await Promise.all(...) lets takeN go on once every peek of the round is in.
BarrierOpen(pk) == \A i \in DOMAIN pk : pk[i] # Pending

\* All peeks are in (the barrier): filter, pick the winner, call its next().
AfterPeeksAs(im) ==
  /\ pc = "peeking"
  /\ BarrierOpen(peeks)
  /\ LET round == RoundOutcome(im, peeks)
     IN CASE round.kind = "break" ->
               /\ pc' = "returned"
               /\ error' = "none"
               /\ winner' = -1
               /\ peeks' = [i \in StreamIdx |-> Idle]
          [] round.kind = "throw" ->
               /\ pc' = "failed"
               /\ error' = "malformed"
               /\ winner' = -1
               /\ peeks' = peeks
          [] OTHER ->
               /\ pc' = "next"
               /\ error' = "none"
               /\ winner' = round.streamIndex
               /\ peeks' = peeks
  /\ UNCHANGED << impl, given, streams, limit, results, emptyPeeksCount, from, touched,
                  emptyRun, wasReset, sortedInput, totalItems, rejected, calls, first,
                  initial >>

AfterPeeks == AfterPeeksAs(impl)

\* The stall safeguard of part_000 after a round without an append.
StallThrows(im, count) == im = "safe" /\ count >= MAX_EMPTY_PEEKS

\* A counter that an append does not reset.
CountAfterNoReset(im, count, appended) ==
  IF im # "safe" THEN count
  ELSE IF appended THEN count ELSE count + 1

\* The counter after a round: reset by an append, else one more (part_000 only).
CountAfter(im, count, appended) ==
  IF im # "safe" THEN count
  ELSE IF appended THEN 0 ELSE count + 1

\* A consume step that calls next() on every stream.
StreamsAfterNextOnAll(ss, idx, o) == [i \in DOMAIN ss |-> StreamAfterNext(ss[i], o)]

\* this.streams[winner.streamIndex].next(): the streams after next() with
\* outcome o was called on the stream of index idx, and on no other.
StreamsAfterNext(ss, idx, o) == [ss EXCEPT ![idx + 1] = StreamAfterNext(ss[idx + 1], o)]

\* A push at the front of the array.
PushFront(res, value) == << value >> \o res

\* results.push(result.value)
Push(res, value) == Append(res, value)

\* if (!result.done && result.value): the next() result is appended.
Appended(result) == ~result.done /\ result.value # NoTx

\* The winner's next() completes with outcome o and implementation im ends the
\* round; the empty-round counter, which only part_000 has, is left aside.
NextResolveAs(im, o) ==
  /\ pc = "next"
  /\ LET s == streams[winner + 1]
         result == StreamNextResult(s, o)
         appended == Appended(result)
         count == CountAfter(im, emptyPeeksCount, appended)
         res == IF appended THEN Push(results, result.value) ELSE results
     IN /\ streams' = StreamsAfterNext(streams, winner, o)
        /\ results' = res
        /\ from' = IF appended THEN Append(from, winner) ELSE from
        /\ emptyRun' = IF appended THEN 0
                       ELSE IF emptyRun < MAX_EMPTY_PEEKS THEN emptyRun + 1 ELSE emptyRun
        /\ wasReset' = (wasReset \/ (appended /\ emptyRun > 0))
        /\ winner' = -1
        /\ limit' = limit
        /\ IF ~appended /\ StallThrows(im, count)
           THEN /\ pc' = "failed"
                /\ error' = "stall"
                /\ peeks' = [i \in StreamIdx |-> Idle]
                /\ touched' = touched
           ELSE LoopHead(res)
  /\ UNCHANGED << impl, given, sortedInput, totalItems, rejected, calls, first, initial >>

\* The winner's next() completes with outcome o; the round ends.
NextResolve(o) ==
  /\ NextResolveAs(impl, o)
  /\ emptyPeeksCount' =
       CountAfter(impl, emptyPeeksCount,
                  Appended(StreamNextResult(streams[winner + 1], o)))

\* The merger over streams none of whose calls fails.
Next ==
  \/ Construct
  \/ \E l \in Limits : TakeN(l)
  \/ \E i \in StreamIdx : PeekResolve(i)
  \/ AfterPeeks
  \/ \E o \in NextOutcomes : NextResolve(o)

Spec == Init /\ [][Next]_vars

SpecRandom == InitRandom /\ [][Next]_vars

\* The merger of src/unnamed/part_000 over up to MaxTieStreams streams.
InitTies == InputsWithin("safe", TxTies, FALSE, MaxTieStreams)

SpecTies == InitTies /\ [][Next]_vars

\* The merger of src/unnamed/part_000 over streams with pending stacks items.
InitPending == InputsOver("safe", TxPending, FALSE)

SpecPending == InitPending /\ [][Next]_vars

(***************************************************************************)
(* Calls that fail.  A peek completes with what its stream reports or with *)
(* a failure; so does the next() of the winner.  Promise.all settles with  *)
(* the first failure, whatever the other peeks are doing: a peek that is   *)
(* still pending then completes after takeN has failed.                    *)
(***************************************************************************)
\* The transactions of the streams of the specifications below.
TxSmall == { Bitcoin(Fin(100)), Spark(Fin(50000)) }

\* A peek that failed.
RejectedPeek == [type |-> "rejected"]

\* A takeN that catches the failure of a peek and goes on as if the stream had
\* reported no item.
RejectionFatalForNextOnly(op) == op = "next"

\* takeN has no try/catch: the failure of an awaited peek or next is the failure
\* of takeN.
RejectionFatal(op) == TRUE

\* The peek of stream i fails.  The first failure of a round is the failure of
\* Promise.all and of takeN; a later one is dropped.
PeekReject(i) ==
  /\ i \in StreamIdx
  /\ pc \in { "peeking", "failed" }
  /\ peeks[i] = Pending
  /\ rejected' = rejected \cup { << "peek", i - 1 >> }
  /\ IF pc = "peeking" /\ ~RejectionFatal("peek")
     THEN /\ peeks' = [peeks EXCEPT ![i] = NoTx]
          /\ UNCHANGED << pc, error >>
     ELSE /\ peeks' = [peeks EXCEPT ![i] = RejectedPeek]
          /\ pc' = "failed"
          /\ error' = IF pc = "peeking" THEN "io" ELSE error
  /\ UNCHANGED << impl, given, streams, limit, results, emptyPeeksCount, winner, from,
                  touched, emptyRun, wasReset, sortedInput, totalItems, calls, first,
                  initial >>

\* The winner's next() fails, and takeN with it.
NextReject ==
  /\ pc = "next"
  /\ RejectionFatal("next")
  /\ rejected' = rejected \cup { << "next", winner >> }
  /\ pc' = "failed"
  /\ error' = "io"
  /\ winner' = -1
  /\ UNCHANGED << impl, given, streams, limit, results, emptyPeeksCount, peeks, from,
                  touched, emptyRun, wasReset, sortedInput, totalItems, calls, first,
                  initial >>

\* The merger over streams whose calls can fail.
NextConc ==
  \/ Next
  \/ \E i \in 1 .. MaxStreams : PeekReject(i)
  \/ NextReject

\* The merger of src/unnamed/part_000 over streams whose calls can fail.
InitConc == InputsOver("safe", TxSmall, FALSE)

SpecConc == InitConc /\ [][NextConc]_vars

(***************************************************************************)
(* Two calls.  Once takeN has returned, takeN is called a second time on   *)
(* the same merger, over the streams as the first call left them.  The     *)
(* streams as they were handed over are kept in initial.                   *)
(***************************************************************************)
NextTwice ==
  \/ Next
  \/ \E l \in Limits : TakeNAgain(l)

InitTwice == InputsOver("safe", TxSmall, TRUE)

SpecTwice == InitTwice /\ [][NextTwice]_vars

(***************************************************************************)
(* Progress.  Every call takeN is waiting for completes: the peeks of a    *)
(* round, the continuation of takeN behind them, the winner's next().      *)
(* What a call completes with is the stream's choice, in every round.      *)
(***************************************************************************)
CallsComplete ==
  /\ \A i \in 1 .. MaxStreams : WF_vars(PeekResolve(i))
  /\ WF_vars(AfterPeeks)
  /\ WF_vars(\E o \in NextOutcomes : NextResolve(o))

\* The merger of src/unnamed/part_000 with every call completing.
SpecLive == InputsOver("safe", TxSmall, FALSE) /\ [][Next]_vars /\ CallsComplete

\* The merger of src/random.ts with every call completing.
SpecRandomLive == InputsOver("random", TxSmall, FALSE) /\ [][Next]_vars /\ CallsComplete

(***************************************************************************)
(* Properties.                                                             *)
(***************************************************************************)
\* takeN has returned a result.
Returned == pc = "returned"

\* The limit is one the specification calls valid: a positive finite integer
\* not above the maximum.
ValidLimit(l) ==
  /\ IsFinite(l)
  /\ l.d = 1
  /\ l.n >= 1
  /\ l.n <= MAX_ALLOWED_LIMIT

\* Item i of the result is ordered before item j: a higher MergeKey, or the same
\* MergeKey and a stream index that is not higher.
OrderedPair(i, j) ==
  \/ JsGT(MergeKey(results[i]), MergeKey(results[j]))
  \/ /\ JsEQ(MergeKey(results[i]), MergeKey(results[j]))
     /\ from[i] <= from[j]

\* C1: over streams that each emit in non-increasing MergeKey order, a result
\* takeN returns is sorted by MergeKey descending, and items of equal MergeKey
\* are in ascending order of the index of the stream that produced them.
C1_SortedOutput ==
  (Returned /\ sortedInput) =>
    \A i \in 1 .. Len(results) : \A j \in i + 1 .. Len(results) : OrderedPair(i, j)

\* The scenario of the specification: A = [100, 50], B = [90], takeN(3) has
\* returned [A:100, B:90, A:50].
C1_Witness ==
  /\ Returned
  /\ sortedInput
  /\ limit = Fin(3)
  /\ Len(results) = 3
  /\ MergeKey(results[1]) = Fin(100) /\ from[1] = 0
  /\ MergeKey(results[2]) = Fin(90) /\ from[2] = 1
  /\ MergeKey(results[3]) = Fin(50) /\ from[3] = 0

\* A tie between two streams was part of a returned result.
C1_WitnessTie ==
  /\ Returned
  /\ sortedInput
  /\ Len(results) >= 2
  /\ \E i \in 1 .. Len(results) - 1 :
       /\ JsEQ(MergeKey(results[i]), MergeKey(results[i + 1]))
       /\ from[i] < from[i + 1]

\* The peek of stream index idx returned an item in this round.
Peeked(idx) == peeks[idx + 1] \notin { NoTx, Pending, Idle }

\* C2: the stream next() is called on is one whose peek returned an item, and
\* its item has a higher MergeKey than the item of every other such stream, or
\* the same MergeKey and a lower stream index.
C2_WinnerIsBest ==
  pc = "next" =>
    /\ winner \in 0 .. NumStreams - 1
    /\ Peeked(winner)
    /\ \A idx \in 0 .. NumStreams - 1 :
         (idx # winner /\ Peeked(idx)) =>
           \/ JsGT(MergeKey(peeks[winner + 1]), MergeKey(peeks[idx + 1]))
           \/ /\ JsEQ(MergeKey(peeks[winner + 1]), MergeKey(peeks[idx + 1]))
              /\ winner < idx

\* Over three streams, next() was called on stream 1, whose head ties with the
\* head of stream 2 above the head of stream 0: reduce took stream 1 over
\* stream 0 and then kept it against stream 2.
C2_Witness ==
  /\ pc = "next"
  /\ NumStreams = 3
  /\ winner = 1
  /\ Peeked(0) /\ Peeked(1) /\ Peeked(2)
  /\ JsGT(MergeKey(peeks[2]), MergeKey(peeks[1]))
  /\ JsEQ(MergeKey(peeks[2]), MergeKey(peeks[3]))

\* Over three streams, next() was called on stream 0, whose head ties with the
\* head of stream 2 around the lower head of stream 1.
C2_WitnessAround ==
  /\ pc = "next"
  /\ NumStreams = 3
  /\ winner = 0
  /\ Peeked(0) /\ Peeked(1) /\ Peeked(2)
  /\ JsGT(MergeKey(peeks[1]), MergeKey(peeks[2]))
  /\ JsEQ(MergeKey(peeks[1]), MergeKey(peeks[3]))

\* Over three streams whose heads all tie, next() was called on stream 0.
C2_WitnessAllTied ==
  /\ pc = "next"
  /\ NumStreams = 3
  /\ winner = 0
  /\ Peeked(0) /\ Peeked(1) /\ Peeked(2)
  /\ JsEQ(MergeKey(peeks[1]), MergeKey(peeks[2]))
  /\ JsEQ(MergeKey(peeks[2]), MergeKey(peeks[3]))

\* Over three streams, next() was called on stream 2, whose head is above the
\* tied heads of streams 0 and 1.
C2_WitnessLast ==
  /\ pc = "next"
  /\ NumStreams = 3
  /\ winner = 2
  /\ Peeked(0) /\ Peeked(1) /\ Peeked(2)
  /\ JsEQ(MergeKey(peeks[1]), MergeKey(peeks[2]))
  /\ JsGT(MergeKey(peeks[3]), MergeKey(peeks[1]))

\* C3: a result returned for a valid limit is no longer than the limit and no
\* longer than the number of items the streams held.
C3_LengthBounded ==
  (Returned /\ ValidLimit(limit)) =>
    /\ Len(results) <= limit.n
    /\ Len(results) <= totalItems

\* takeN returned exactly limit items while the streams held more.
C3_Witness ==
  /\ Returned
  /\ ValidLimit(limit)
  /\ Len(results) = limit.n
  /\ totalItems > limit.n

\* takeN returned every item of the streams, fewer than the limit.
C3_WitnessShort ==
  /\ Returned
  /\ ValidLimit(limit)
  /\ Len(results) = totalItems
  /\ totalItems > 0
  /\ totalItems < limit.n

\* takeN has been called (and may have completed).
Called == pc \in { "peeking", "next", "returned", "failed" } /\ limit # Undefined

\* The limit is non-positive, non-finite or above the maximum.
RefusedLimit(l) ==
  \/ l.k \in { "nan", "inf" }
  \/ l.k = "fin" /\ l.n <= 0
  \/ l.k = "fin" /\ l.n > MAX_ALLOWED_LIMIT * l.d

\* takeN threw on its limit before calling peek or next on any stream.
RejectedUntouched == pc = "failed" /\ error = "limit" /\ ~touched

\* C4: takeN, on a merger over at least one stream, with a limit that is
\* non-positive, non-finite or above 10000 fails without calling peek or next
\* on any stream, and limit 10000 is accepted.
C4_InvalidLimitFails ==
  (Called /\ NumStreams > 0) =>
    /\ RefusedLimit(limit) => RejectedUntouched
    /\ limit = Fin(MAX_ALLOWED_LIMIT) => ~(pc = "failed" /\ error = "limit")

\* The merger of src/unnamed/part_000 refused limit 10001 without touching a stream.
C4_Witness ==
  /\ impl = "safe"
  /\ limit = Fin(MAX_ALLOWED_LIMIT + 1)
  /\ RejectedUntouched
  /\ totalItems > 0

\* The limit is positive, finite, not above the maximum and not an integer.
NonIntegerLimit(l) ==
  /\ l.k = "fin"
  /\ l.n > 0
  /\ l.n <= MAX_ALLOWED_LIMIT * l.d
  /\ l.n % l.d # 0

\* C5: takeN with a positive, finite, non-integer limit up to 10000 fails before
\* any peek or next.
C5_NonIntegerLimitFails ==
  (Called /\ NonIntegerLimit(limit)) => RejectedUntouched

\* C6: a constructor handed no list or an empty list fails, so no merger exists
\* over zero streams.
C6_EmptyConstructionFails ==
  (given = "absent" \/ NumStreams = 0) =>
    \/ pc = "new"
    \/ pc = "failed" /\ error = "config"

\* The constructor of src/unnamed/part_000 refused an empty list.
C6_Witness ==
  /\ impl = "safe"
  /\ given = "list"
  /\ NumStreams = 0
  /\ pc = "failed"
  /\ error = "config"

\* C7: once three consecutive rounds of a takeN call have appended nothing, the
\* call has failed with the stall error; it goes on to no further round and
\* returns nothing.
C7_ThreeEmptyRoundsStall ==
  (Called /\ emptyRun >= MAX_EMPTY_PEEKS) => (pc = "failed" /\ error = "stall")

\* The merger of src/unnamed/part_000 stalled while a stream still had an item.
C7_Witness ==
  /\ impl = "safe"
  /\ pc = "failed"
  /\ error = "stall"
  /\ emptyRun = MAX_EMPTY_PEEKS
  /\ \E i \in StreamIdx : Len(streams[i]) > 0

\* C8: a takeN call fails with the stall error only when its last three rounds
\* appended nothing; the counter is the number of rounds since the last append.
C8_StallOnlyAfterThree ==
  Called =>
    /\ (pc = "failed" /\ error = "stall") => emptyRun = MAX_EMPTY_PEEKS
    /\ emptyPeeksCount = emptyRun

\* takeN returned after a round without an append, then an append, then two
\* more rounds without an append: three such rounds, never three in a row.
C8_Witness ==
  /\ Returned
  /\ wasReset
  /\ emptyRun = MAX_EMPTY_PEEKS - 1
  /\ Len(results) > 0

\* Every stream's peek of this round returned no item.
AllPeeksEmpty ==
  /\ pc = "peeking"
  /\ NumStreams > 0
  /\ \A i \in StreamIdx : peeks[i] = NoTx

\* C9: a round in which every peek returns no item ends the call with the items
\* collected so far and no error, whatever the empty-round counter is.
C9_AllEmptyReturns ==
  [][AllPeeksEmpty => (pc' = "returned" /\ error' = "none" /\ results' = results)]_vars

\* takeN returned items out of an all-empty round while the counter was not zero.
C9_Witness ==
  /\ Returned
  /\ emptyPeeksCount > 0
  /\ Len(results) > 0
  /\ \A i \in StreamIdx : Len(streams[i]) = 0

\* takeN returned the empty sequence out of an all-empty first round.
C9_WitnessFirstRound ==
  /\ Returned
  /\ touched
  /\ totalItems = 0
  /\ results = << >>

\* The transaction is a starknet or spark one whose timestamp does not parse.
Malformed(tx) == tx.type \in { "starknet", "spark" } /\ MergeKey(tx) = Throw

\* C10: a malformed starknet or spark item is fatal for the call that meets it
\* as a candidate: next() is never called in a round that peeked one, and none
\* is ever in a result.
C10_MalformedIsFatal ==
  /\ pc = "next" => \A idx \in 0 .. NumStreams - 1 :
                      Peeked(idx) => ~Malformed(peeks[idx + 1])
  /\ \A i \in 1 .. Len(results) : ~Malformed(results[i])

\* The merger of src/unnamed/part_000 failed on a malformed candidate.
C10_Witness ==
  /\ impl = "safe"
  /\ pc = "failed"
  /\ error = "malformed"
  /\ \E i \in StreamIdx : Malformed(peeks[i])

\* The transaction is a stacks one with neither a block_time nor a
\* burn_block_time.
PendingStacks(tx) ==
  /\ tx.type = "stacks"
  /\ ~IsNumber(tx.block_time)
  /\ ~IsNumber(tx.burn_block_time)

\* The transaction has a concrete timestamp: its MergeKey is a finite number.
Concrete(tx) == tx.type \in { "bitcoin", "stacks", "starknet", "spark" } /\ IsFinite(MergeKey(tx))

\* Some stream's peek of this round returned a pending stacks item.
PendingStacksPeeked == \E idx \in 0 .. NumStreams - 1 : Peeked(idx) /\ PendingStacks(peeks[idx + 1])

\* C11: a stacks item with neither block_time nor burn_block_time has a MergeKey
\* above every concrete timestamp; in a round where such an item is a candidate
\* the winner is such an item, never a candidate with a concrete timestamp, and
\* no item with a concrete timestamp is appended to the result while such an
\* item is the head of a stream, so it comes out ahead of them.
C11_PendingStacksFirst ==
  [][(pc = "next" /\ PendingStacksPeeked) =>
       /\ \A tx \in TxUniverse \cup TxPending :
            Concrete(tx) => JsGT(MergeKey(peeks[winner + 1]), MergeKey(tx))
       /\ PendingStacks(peeks[winner + 1])
       /\ \A idx \in 0 .. NumStreams - 1 :
            (Peeked(idx) /\ Concrete(peeks[idx + 1])) => winner # idx
       /\ \/ results' = results
          \/ /\ Len(results') = Len(results) + 1
             /\ PendingStacks(results'[Len(results')])]_vars

\* A pending stacks item of the second stream was returned ahead of the item
\* with a concrete timestamp that headed the first stream in the same round.
C11_Witness ==
  /\ Returned
  /\ Len(results) >= 2
  /\ PendingStacks(results[1]) /\ from[1] = 1
  /\ Concrete(results[2]) /\ from[2] = 0

\* No transient empty and no early completion has occurred in this call: every
\* next() so far yielded the item its stream's peek had reported.
NoGlitch == emptyRun = 0 /\ ~wasReset

\* C12: a round that reaches the consume step calls next() on one stream, the
\* winner, whose peek returned an item in that round; that step leaves every other
\* stream as it was, so that its next peek returns what its peek of this round
\* returned; no other step of takeN changes any stream.
C12_OnlyWinnerAdvances ==
  [][/\ pc = "next" =>
          /\ winner \in 0 .. NumStreams - 1
          /\ Peeked(winner)
          /\ \A idx \in 0 .. NumStreams - 1 :
               idx # winner =>
                 /\ streams'[idx + 1] = streams[idx + 1]
                 /\ StreamPeek(streams'[idx + 1]) = peeks[idx + 1]
     /\ pc # "next" => streams' = streams]_vars

\* In its second round takeN called next() on the second stream, whose only item
\* lost the first round to the first stream's and was left in place.
C12_Witness ==
  /\ pc = "next"
  /\ NoGlitch
  /\ NumStreams = 2
  /\ totalItems = 2
  /\ Len(results) = 1
  /\ from[1] = 0
  /\ Len(streams[1]) = 0
  /\ Len(streams[2]) = 1
  /\ winner = 1

\* C13: once a peek or a next call of a takeN call has failed, that takeN call
\* has failed with the input/output failure: it returns nothing, not the items
\* collected so far, and from then on it issues no peek and no next, appends
\* nothing and consumes nothing.
C13_CallFailurePropagates ==
  /\ [](rejected # {} => (pc = "failed" /\ error = "io"))
  /\ [][(pc = "failed" /\ error = "io") =>
          /\ pc' = "failed"
          /\ error' = "io"
          /\ results' = results
          /\ streams' = streams
          /\ winner' = -1
          /\ \A i \in StreamIdx : peeks'[i] = Pending => peeks[i] = Pending]_vars

\* The next() of a later round failed: takeN failed although it had collected
\* an item.
C13_Witness ==
  /\ pc = "failed"
  /\ error = "io"
  /\ Len(results) > 0
  /\ \E idx \in 0 .. NumStreams - 1 : rejected = { << "next", idx >> }

\* The peek of the second stream failed: takeN failed.
C13_WitnessPeek ==
  /\ pc = "failed"
  /\ error = "io"
  /\ rejected = { << "peek", 1 >> }

\* A takeN call has completed: it has returned a result or failed.
Completed == Called /\ pc \in { "returned", "failed" }

\* C14: once a takeN call has completed, none of its peeks is still pending and
\* no next() of it is in flight.
C14_NothingInFlightAfterCompletion ==
  Completed =>
    /\ \A i \in StreamIdx : peeks[i] # Pending
    /\ winner = -1

\* takeN has failed on the failure of the first stream's peek while the peek of
\* the second stream is still pending.
C14_Witness ==
  /\ pc = "failed"
  /\ error = "io"
  /\ NumStreams = 2
  /\ peeks[1] = RejectedPeek
  /\ peeks[2] = Pending

\* takeN is running: it waits for the peeks of a round or for the winner's next().
Running == pc \in { "peeking", "next" }

\* C15: with every peek and next call completing, a running takeN call
\* eventually returns a result or fails, whatever the streams report.
C15_EveryCallCompletes == Running ~> (pc \in { "returned", "failed" })

\* takeN of src/random.ts starts one more round after three rounds in a row in
\* which the winner's next() yielded nothing.
C15_Witness ==
  /\ impl = "random"
  /\ pc = "peeking"
  /\ emptyRun = MAX_EMPTY_PEEKS

\* The items of res that stream idx produced, in the order they have in res.
RECURSIVE ItemsFrom(_, _, _, _)
ItemsFrom(res, fr, idx, i) ==
  IF i > Len(res) THEN << >>
  ELSE IF fr[i] = idx
       THEN << res[i] >> \o ItemsFrom(res, fr, idx, i + 1)
       ELSE ItemsFrom(res, fr, idx, i + 1)

\* Sequence s is the start of sequence t.
IsPrefix(s, t) == Len(s) <= Len(t) /\ s = SubSeq(t, 1, Len(s))

\* C16: in the first call on a merger, the items of each stream in the result
\* are the first items that stream held, in the stream's own order, sorted or
\* not; a step of takeN changes the result only by appending, at its end, the
\* value the winner's next() produced, and the result is returned as it is.
C16_SourceOrderKept ==
  /\ [](calls = 1 =>
          /\ Len(from) = Len(results)
          /\ \A idx \in 0 .. NumStreams - 1 :
               IsPrefix(ItemsFrom(results, from, idx, 1), initial[idx + 1]))
  /\ [][Called =>
          \/ results' = results
          \/ /\ pc = "returned"
             /\ pc' # "returned"
             /\ results' = << >>
          \/ /\ pc = "next"
             /\ \E o \in NextOutcomes :
                  LET result == StreamNextResult(streams[winner + 1], o)
                  IN /\ Appended(result)
                     /\ results' = Append(results, result.value)
                     /\ streams' = StreamsAfterNext(streams, winner, o)]_vars

\* takeN returned both items of a stream that is not sorted, the older one
\* first as the stream emitted them, and then the item of the other stream.
C16_Witness ==
  /\ Returned
  /\ calls = 1
  /\ NumStreams = 2
  /\ Len(results) = 3
  /\ from = << 0, 0, 1 >>
  /\ JsLT(MergeKey(results[1]), MergeKey(results[2]))
  /\ initial[1] = << results[1], results[2] >>

\* A next() call of takeN is in flight.
NextInFlight == winner # -1

\* C17: while a next() call is in flight, takeN is in its consume step and no
\* peek is pending; next() is issued only out of a round all of whose peeks have
\* completed, when no next() is in flight; and once it has completed, no
\* next() is in flight and takeN either has completed or has issued the peeks
\* of a new round: one next() per round, never alongside a peek or another next().
C17_NextAfterAllPeeks ==
  /\ [](NextInFlight =>
          /\ pc = "next"
          /\ winner \in 0 .. NumStreams - 1
          /\ \A i \in StreamIdx : peeks[i] \notin { Pending, Idle })
  /\ [][(NextInFlight' /\ winner' # winner) =>
          /\ ~NextInFlight
          /\ pc = "peeking"
          /\ \A i \in StreamIdx : peeks[i] # Pending]_vars
  /\ [][NextInFlight =>
          /\ ~NextInFlight'
          /\ pc' = "peeking" => \A i \in StreamIdx : peeks'[i] = Pending]_vars

\* next() was called on the second of two streams after both peeks of the round
\* had returned an item.
C17_Witness ==
  /\ pc = "next"
  /\ NumStreams = 2
  /\ Peeked(0)
  /\ Peeked(1)
  /\ winner = 1
  /\ Len(results) > 0

\* The smaller of two integers.
Min(a, b) == IF a <= b THEN a ELSE b

\* C18: over streams whose next() yields the item their peek reported every
\* time, a result takeN returns for a valid limit has min(limit, number of items
\* the streams held) items: fewer than the limit only if every stream is
\* exhausted, and every item taken out of a stream is in the result.
C18_ExactLength ==
  (Returned /\ ValidLimit(limit) /\ NoGlitch) =>
    /\ Len(results) = Min(limit.n, totalItems)
    /\ Len(results) < limit.n => \A i \in StreamIdx : Len(streams[i]) = 0
    /\ Len(results) + SumLen(streams, 1) = totalItems

\* takeN(2) returned two of the three items of two streams and left the third
\* in its stream.
C18_Witness ==
  /\ Returned
  /\ NoGlitch
  /\ limit = Fin(2)
  /\ NumStreams = 2
  /\ totalItems = 3
  /\ Len(results) = 2
  /\ from = << 0, 1 >>
  /\ SumLen(streams, 1) = 1

\* takeN(3) returned the two items the streams held.
C18_WitnessShort ==
  /\ Returned
  /\ NoGlitch
  /\ limit = Fin(3)
  /\ totalItems = 2
  /\ Len(results) = 2
  /\ \A i \in StreamIdx : Len(streams[i]) = 0

\* The outcome of a whole takeN(l) call: the sequence it returns, or its failure.
Outcome(ok, res) == [ok |-> ok, results |-> res]

\* takeN(l) of implementation im run from its loop head to its end over the
\* streams ss, each next() yielding the item the stream's peek reported; res is
\* the result so far.
RECURSIVE TakeNRun(_, _, _, _)
TakeNRun(im, ss, l, res) ==
  IF ~LoopTest(res, l) THEN Outcome(TRUE, res)
  ELSE LET pk == [i \in DOMAIN ss |-> StreamPeek(ss[i])]
           round == RoundOutcome(im, pk)
       IN CASE round.kind = "break" -> Outcome(TRUE, res)
            [] round.kind = "throw" -> Outcome(FALSE, << >>)
            [] OTHER ->
                 LET idx == round.streamIndex
                     result == StreamNextResult(ss[idx + 1], "value")
                 IN TakeNRun(im, StreamsAfterNext(ss, idx, "value"), l,
                             Push(res, result.value))

\* Two calls have returned, takeN(a) and then takeN(b) with a and b positive
\* integers and a + b within the maximum, and every next() of both yielded the
\* item its stream's peek had reported.
TwoCleanCalls ==
  /\ Returned
  /\ calls = 2
  /\ first.clean
  /\ NoGlitch
  /\ ValidLimit(first.limit)
  /\ ValidLimit(limit)
  /\ first.limit.n + limit.n <= MAX_ALLOWED_LIMIT

\* C19: what takeN(a) and then takeN(b) return on one merger is, put end to
\* end, what a single takeN(a + b) returns over the streams as they were handed
\* over; and in either call the empty-round counter counts the rounds without
\* an append of that call alone.
C19_TwoCallsAsOne ==
  /\ TwoCleanCalls =>
       Outcome(TRUE, first.results \o results) =
         TakeNRun(impl, initial, Fin(first.limit.n + limit.n), << >>)
  /\ Called => emptyPeeksCount = emptyRun

\* takeN(1) and then takeN(2) returned between them three items of two streams.
C19_Witness ==
  /\ TwoCleanCalls
  /\ first.limit = Fin(1)
  /\ limit = Fin(2)
  /\ NumStreams = 2
  /\ Len(first.results) = 1
  /\ Len(results) = 2
  /\ from = << 1, 0 >>

\* The second call started its counter at zero although the first call had
\* counted a round without an append.
C19_WitnessCounter ==
  /\ calls = 2
  /\ pc = "peeking"
  /\ ~first.clean
  /\ emptyPeeksCount = 0
  /\ Len(first.results) > 0

\* A step of the merger of src/random.ts: its constructor, the call of its
\* takeN, the peeks of a round, the choice of the winner, the end of a round.
StepOfRandom ==
  \/ ConstructAs("random")
  \/ \E l \in Limits : TakeNAs("random", l)
  \/ \E i \in StreamIdx : PeekResolve(i)
  \/ AfterPeeksAs("random")
  \/ \E o \in NextOutcomes : NextResolveAs("random", o)

\* Over the streams of this state, whose next() yields what their peek reports,
\* takeN(l) of src/random.ts returns what takeN(l) of part_000 returns, for
\* every limit part_000 accepts and every run it does not fail.
SameRunAsRandom ==
  \A l \in Limits :
    LET safe == TakeNRun("safe", streams, l, << >>)
    IN (~LimitThrows("safe", l) /\ safe.ok) => TakeNRun("random", streams, l, << >>) = safe

\* C20: every step of the merger of src/unnamed/part_000 that is not a failure
\* is the step the merger of src/random.ts takes from the same state, whatever
\* the streams report (the empty-round counter of part_000 aside): the same peeks,
\* the same winner, the same next(), the same result.  So a call part_000
\* returns from is, call by call, the call of random.ts, with the same result.
C20_RandomAgreesWhereSafeSucceeds ==
  /\ [](pc = "idle" => SameRunAsRandom)
  /\ [][pc' # "failed" => StepOfRandom]_vars

\* takeN of part_000 returned a result that holds a malformed item, which won
\* its round as the only candidate: the one item on which the normalizers of
\* the two mergers differ.
C20_Witness ==
  /\ impl = "safe"
  /\ Returned
  /\ Len(results) >= 2
  /\ Malformed(results[1])
  /\ ~Malformed(results[2])

====
